---- MODULE Spec2Model ----
(***************************************************************************)
(* The interactive console of pyedit.py (class InteractiveConsole) with    *)
(* the script runner and the controller handlers that drive it.            *)
(*                                                                         *)
(* The console buffer is a sequence of one-character strings; a position   *)
(* p (0 <= p <= Len(buf)) lies between buf[p] and buf[p+1], as a           *)
(* QTextCursor position does.  A line is a text block: a maximal run of    *)
(* characters without "\n" (the widget is in NoWrap mode).                 *)
(***************************************************************************)
EXTENDS Integers, Sequences, FiniteSets, TLC

\* ---------------------------------------------------------------- bounds
\* A session is explored up to this number of events: key presses, run
\* requests and output chunks read from the child process.
MaxEvents == 6

\* ------------------------------------------------------- program constants
NL == "\n"
InitPrompt == <<">", ">", ">", " ">>                 \* ">>> "
PdbPrompt == <<"(", "p", "d", "b", ")", " ">>        \* "(pdb) "
Prompts == {InitPrompt, PdbPrompt}

\* Runner and controller messages.  The interpolated command line, path and
\* the words of the message are shortened; the line breaks are the source's,
\* and each message is longer than a prompt, as the source's are.
RunningMsg == <<NL, "[", "R", "u", "n", "]", NL>>    \* "\n[Running script: ...]\n"
NotFoundMsg == <<"E", "r", "r", "o", "r", ":", "f">> \* "Error: File not found at '...'"
TerminatedMsg == <<NL, "[", "T", "]", NL>>           \* "\n[Script terminated]\n"
FinishedMsg(code) == <<NL, "[", "F", "i", "n", ":", code, "]">>
                                     \* "\n[Script finished with exit code N]"
ExitCodes == {"0"}

\* What the user and the child process can supply.
Printable == {"a", " "}
Chunks == {<<"o">>, <<"o", NL>>}
Whitespace == {" ", NL}

\* ----------------------------------------------------------- text helpers
Min(a, b) == IF a < b THEN a ELSE b
Max(a, b) == IF a > b THEN a ELSE b

Drop(s, n) == SubSeq(s, Min(n, Len(s)) + 1, Len(s))        \* s[n:]

\* str.strip(): leading and trailing whitespace removed.
RECURSIVE LStrip(_)
LStrip(s) == IF s # <<>> /\ Head(s) \in Whitespace THEN LStrip(Tail(s)) ELSE s
RECURSIVE RStrip(_)
RStrip(s) ==
  IF s # <<>> /\ s[Len(s)] \in Whitespace THEN RStrip(SubSeq(s, 1, Len(s) - 1)) ELSE s
Strip(s) == LStrip(RStrip(s))

IsPrefix(p, s) == Len(p) <= Len(s) /\ SubSeq(s, 1, Len(p)) = p

\* QTextCursor.MoveOperation.StartOfLine / EndOfLine from position pos.
StartOfLine(b, pos) ==
  LET nls == {k \in 1..pos : b[k] = NL}
  IN IF nls = {} THEN 0 ELSE CHOOSE k \in nls : \A j \in nls : j <= k
EndOfLine(b, pos) ==
  LET nls == {k \in (pos + 1)..Len(b) : b[k] = NL}
  IN IF nls = {} THEN Len(b) ELSE (CHOOSE k \in nls : \A j \in nls : k <= j) - 1
\* The text of the line holding position pos (cursor.selectedText()).
LineText(b, pos) == SubSeq(b, StartOfLine(b, pos) + 1, EndOfLine(b, pos))

\* ------------------------------------------------------------------ state
VARIABLES
  buf,            \* the console document's text
  cursor,         \* textCursor().position()
  line_start,     \* current_line_start_pos
  prompt,         \* self.prompt
  history,        \* self.history, most recent first
  history_index,  \* self.history_index
  readOnly,       \* isReadOnly()
  procState,      \* QProcess.state() of the runner's process
  stopEnabled,    \* stop_script_action.isEnabled()
  killed,         \* process.kill() was called on the running process and
                  \* its finished signal is still to come
  \* what the last handler did, for the observer
  lastOp,         \* the handler that ran last
  emitted,        \* commands sent through command_entered by the last handler
  written,        \* lines written to the child's stdin by the last handler
  errors,         \* messages run_script sent through error_signal in the
                  \* last handler
  forced,         \* the last key event found the cursor before line_start
  passPos,        \* cursor position at which the last key event reached
                  \* super().keyPressEvent, or -1
  sp,             \* the setPrompt call of the last handler: end of buffer
                  \* before and after, line_start and cursor it left
  prevIndex,      \* history_index when the last handler started
  line,           \* the line holding the cursor when the last key handler
                  \* started, after the forced move
  \* the counter that bounds the exploration
  events,         \* key presses, run requests and output chunks so far
  \* SettingsManager
  settings,       \* the QSettings store: key -> typed value
  setOp,          \* the SettingsManager method called last
  saved,          \* the arguments of the last save_settings call
  loaded,         \* what the last load_settings call returned
  \* the tab widget, its editors and the controller's recent files
  tabs,           \* ui.tabs: the editors in tab order, each with an identity,
                  \* file_path, toPlainText() and document().isModified()
  current,        \* the identity of ui.tabs.currentWidget(), 0 when none
  recent_files,   \* controller.recent_files
  \* what the last tab or file handler did, for the observer
  tabOp,          \* the handler that ran last
  dialogs,        \* the close_tab_dialog answers of the last handler
  saves,          \* the save_file / save_file_as calls of the last handler
  removed,        \* the editors the last handler took off the tab bar, with
                  \* isModified() at that moment
  reported,       \* the last handler showed a QMessageBox.critical
  passes,         \* passes of the Close All loop in the last handler
  steps,          \* tab and file handlers run so far
  \* Replace All of the find and replace dialog
  doc,            \* toPlainText() of the editor the dialog works on
  before,         \* the text the last Replace All started from
  params,         \* get_search_params() of the last Replace All
  replOp          \* the dialog action that ran last

cons == <<buf, cursor, line_start, prompt, history, history_index, readOnly>>
proc == <<procState, stopEnabled, killed>>
obs == <<lastOp, emitted, written, errors, forced, passPos, sp, prevIndex, line>>
cnt == <<events>>
setv == <<settings, setOp, saved, loaded>>
console == <<cons, proc, obs, cnt>>
tabv == <<tabs, current, recent_files>>
tabobs == <<tabOp, dialogs, saves, removed, reported, passes, steps>>
repv == <<doc, before, params, replOp>>
desk == <<setv, tabv, tabobs, repv>>
vars == <<console, desk>>

\* --------------------------------------------------- InteractiveConsole
\* appendPlainText (the override): the text goes in at the end of the
\* document and the widget's cursor is left after it.
AppendPlainText_KeepCursor(b, text) == [buf |-> b \o text, cursor |-> Len(b)]
AppendPlainText(b, text) == [buf |-> b \o text, cursor |-> Len(b) + Len(text)]

\* setPrompt: line_start is computed from the cursor as it is BEFORE the
\* prompt is appended; the prompt is then appended at the end of the
\* document and the cursor is moved to the end.
SetPromptStart_NoPromptLen(cur, p) == cur
SetPromptStart(cur, p) == cur + Len(p)
SetPrompt(b, cur, p) ==
  LET a == AppendPlainText(b, p)
  IN [buf |-> a.buf, cursor |-> Len(a.buf), line_start |-> SetPromptStart(cur, p),
      prompt |-> p,
      sp |-> [before |-> Len(b), after |-> Len(a.buf),
              line_start |-> SetPromptStart(cur, p), cursor |-> Len(a.buf)]]

\* The handler made no setPrompt call.
NoPrompt == [before |-> -1, after |-> -1, line_start |-> -1, cursor |-> -1]

\* keyPressEvent, first step: a cursor before line_start is put at the end
\* of the document (characterCount() - 1).
NeedsForce(cur, ls) == cur < ls
KeyCursor == IF NeedsForce(cursor, line_start) THEN Len(buf) ELSE cursor

\* _handle_history_navigation: the new history_index.
UpIndex_Wraps(h, i) == IF i < Len(h) - 1 THEN i + 1 ELSE -1
UpIndex(h, i) == IF i < Len(h) - 1 THEN i + 1 ELSE i
DownIndex(h, i) == IF i > 0 THEN i - 1 ELSE -1

\* _handle_history_navigation: the line holding the cursor is removed and
\* the prompt, then history[i] when i # -1, are put in its place.
HistoryText_NoClear(h, i) == h[Max(i, 0) + 1]
HistoryText(h, i) == IF i # -1 THEN h[i + 1] ELSE <<>>
ReplaceLine_HistoryFirst(b, c, p, h, i) ==
  LET s == StartOfLine(b, c)
      e == EndOfLine(b, c)
      new == HistoryText(h, i) \o p
  IN [buf |-> SubSeq(b, 1, s) \o new \o SubSeq(b, e + 1, Len(b)),
      cursor |-> s + Len(new)]
ReplaceLine(b, c, p, h, i) ==
  LET s == StartOfLine(b, c)
      e == EndOfLine(b, c)
      new == p \o HistoryText(h, i)
  IN [buf |-> SubSeq(b, 1, s) \o new \o SubSeq(b, e + 1, Len(b)),
      cursor |-> s + Len(new)]

\* _handle_command_entry: the command taken from the cursor's line.
Command_NoFinalStrip(text, p) == Drop(Strip(text), Len(p))
Command(text, p) == Strip(Drop(Strip(text), Len(p)))

\* _handle_command_entry: the history after the command.
PushHistory_NoDedup(h, c) == IF c # <<>> THEN <<c>> \o h ELSE h
PushHistory(h, c) ==
  IF c # <<>> THEN (IF h = <<>> \/ h[1] # c THEN <<c>> \o h ELSE h) ELSE h

\* super().keyPressEvent for the editing and cursor keys.  A read-only
\* widget neither edits nor moves the cursor on a key.
DefaultKey(key, b, c, ro) ==
  IF ro THEN [buf |-> b, cursor |-> c]
  ELSE CASE key = "Backspace" ->
              IF c > 0 THEN [buf |-> SubSeq(b, 1, c - 1) \o SubSeq(b, c + 1, Len(b)),
                             cursor |-> c - 1]
              ELSE [buf |-> b, cursor |-> c]
         [] key = "Delete" ->
              IF c < Len(b) THEN [buf |-> SubSeq(b, 1, c) \o SubSeq(b, c + 2, Len(b)),
                                  cursor |-> c]
              ELSE [buf |-> b, cursor |-> c]
         [] key = "Left" -> [buf |-> b, cursor |-> Max(0, c - 1)]
         [] key = "Right" -> [buf |-> b, cursor |-> Min(Len(b), c + 1)]
         [] key = "Home" -> [buf |-> b, cursor |-> StartOfLine(b, c)]
         [] OTHER -> [buf |-> SubSeq(b, 1, c) \o <<key>> \o SubSeq(b, c + 1, Len(b)),
                      cursor |-> c + 1]

EditKeys == {"Backspace", "Delete", "Left", "Right", "Home"}

\* ScriptRunner.write_to_stdin, reached through command_entered and
\* _send_command_to_process.
WriteToStdin_Always(st, command) == <<command \o <<NL>>>>
WriteToStdin(st, command) == IF st = "Running" THEN <<command \o <<NL>>>> ELSE <<>>

\* ------------------------------------------------------- SettingsManager
\* A value held by QSettings is a QVariant: its type and its content.  A
\* Python str is stored as a string and comes back as a str; a QByteArray
\* is the only thing that comes back as a QByteArray.
Absent == [type |-> "absent", val |-> <<>>]
SettingsKeys == {"font_size", "recent_files", "dark_mode", "tabs"}

\* json.dumps(list): a Python str holding the JSON text, kept here as the
\* list the text encodes; json.loads gives the list back.
JsonDumps(list) == [type |-> "str", val |-> list]
JsonLoads(text) == text.val

\* QSettings.value(key, default).
Value(store, key, default) == IF store[key] = Absent THEN default ELSE store[key]

\* _load_json_list: the stored text is parsed only when QSettings returns
\* a QByteArray; the default is the Python bytes b"[]".
IsQByteArray(data) == data.type = "QByteArray"
LoadJsonList(store, key) ==
  LET data == Value(store, key, [type |-> "bytes", val |-> <<>>])
  IN IF IsQByteArray(data) THEN JsonLoads(data) ELSE <<>>

\* The default font size of load_settings.
DefaultFontSize == 12

\* What save_settings can be given.  A path is a number, NoPath is None.
NumPaths == 2
MaxSavedTabs == 1
NoPath == 0
Paths == 1..NumPaths
Contents == {"", "x"}
FontSizes == {DefaultFontSize, DefaultFontSize + 1}
Lists(S, n) == UNION {[1..k -> S] : k \in 0..n}
RecentLists == {l \in Lists(Paths, NumPaths) :
                  \A i, j \in 1..Len(l) : i # j => l[i] # l[j]}
\* controller.save_settings keeps a tab that has a path or some content.
TabData == {t \in [path : Paths \cup {NoPath}, content : Contents, is_dirty : BOOLEAN] :
              t.path # NoPath \/ t.content # ""}
TabLists == Lists(TabData, MaxSavedTabs)

SettingsInit ==
  /\ settings = [k \in SettingsKeys |-> Absent]
  /\ setOp = "none"
  /\ saved = <<>>
  /\ loaded = <<>>

\* SettingsManager.save_settings(font_size, recent_files, dark_mode, tabs),
\* called when the application that loaded the settings quits.
SaveSettings ==
  \E fs \in FontSizes, rf \in RecentLists, dm \in BOOLEAN, tl \in TabLists :
    /\ setOp = "load_settings"
    /\ settings' = [k \in SettingsKeys |->
                      CASE k = "font_size" -> [type |-> "int", val |-> fs]
                        [] k = "recent_files" -> JsonDumps(rf)
                        [] k = "dark_mode" -> [type |-> "bool", val |-> dm]
                        [] k = "tabs" -> JsonDumps(tl)]
    /\ saved' = <<[font_size |-> fs, recent_files |-> rf, dark_mode |-> dm, tabs |-> tl]>>
    /\ loaded' = <<>>
    /\ setOp' = "save_settings"
    /\ UNCHANGED <<console, tabv, tabobs, repv>>

\* SettingsManager.load_settings, called once when the application starts.
LoadSettings ==
  /\ setOp # "load_settings"
  /\ loaded' = <<[font_size |-> Value(settings, "font_size",
                                       [type |-> "int", val |-> DefaultFontSize]).val,
                   recent_files |-> LoadJsonList(settings, "recent_files"),
                   dark_mode |-> Value(settings, "dark_mode",
                                       [type |-> "bool", val |-> FALSE]).val,
                   tabs |-> LoadJsonList(settings, "tabs")]>>
  /\ setOp' = "load_settings"
  /\ UNCHANGED <<settings, saved, console, tabv, tabobs, repv>>

SettingsNext ==
  \/ SaveSettings
  \/ LoadSettings

\* ------------------------------------------------- tabs, files, recent files
\* An exploration runs up to MaxSteps tab and file handlers with up to
\* MaxTabs tabs open.
MaxTabs == 2
MaxSteps == 3

\* The length _add_to_recent_files cuts the list to.
MaxRecent == 10

\* PyEdit(): an editor of a new tab.
NewEditor(id) == [id |-> id, file_path |-> NoPath, content |-> "", modified |-> FALSE]

Ids(ts) == {ts[k].id : k \in 1..Len(ts)}
\* The identity given to the next editor: the smallest one not in use.
FreeId(ts) == CHOOSE i \in 1..(Len(ts) + 1) :
                i \notin Ids(ts) /\ \A j \in 1..(i - 1) : j \in Ids(ts)
IndexOf(ts, id) == CHOOSE k \in 1..Len(ts) : ts[k].id = id
EditorOf(ts, id) == ts[IndexOf(ts, id)]

\* ui.new_tab: the editor goes to the end of the tab bar and becomes current.
NewTab(ts, e) == [tabs |-> Append(ts, e), current |-> e.id]

\* QTabWidget.removeTab(i): when the current tab goes, the tab that was at
\* its right becomes current, or the last one.
RemoveTab(ts, cur, i) ==
  LET rest == SubSeq(ts, 1, i - 1) \o SubSeq(ts, i + 1, Len(ts))
  IN [tabs |-> rest,
      current |-> IF ts[i].id # cur THEN cur
                  ELSE IF rest = <<>> THEN 0
                  ELSE rest[Min(i, Len(rest))].id]

\* list.remove(x): the first occurrence goes.
RECURSIVE RemoveFirst(_, _)
RemoveFirst(l, x) ==
  IF l = <<>> THEN <<>>
  ELSE IF Head(l) = x THEN Tail(l) ELSE <<Head(l)>> \o RemoveFirst(Tail(l), x)
Contains(l, x) == \E k \in 1..Len(l) : l[k] = x

\* _add_to_recent_files.
AddToRecentFiles_NoRemove(rf, p) == SubSeq(<<p>> \o rf, 1, Min(MaxRecent, Len(rf) + 1))
AddToRecentFiles(rf, p) ==
  LET l == <<p>> \o (IF Contains(rf, p) THEN RemoveFirst(rf, p) ELSE rf)
  IN SubSeq(l, 1, Min(MaxRecent, Len(l)))

\* What the user and the disk answer during a handler: the button of the
\* close dialog, the path of the Save As dialog (NoPath: cancelled) and
\* whether the file can be written.
Answers == [choice : {"Save", "Discard", "Cancel"}, path : Paths \cup {NoPath}, ok : BOOLEAN]
\* The answers a save of editor e consults: the Save As dialog opens for an
\* untitled editor only, and a cancelled dialog writes nothing.
SaveAnswers(e, saveAs) ==
  {a \in Answers :
     /\ a.choice = "Save"
     /\ (e.file_path # NoPath /\ ~saveAs) => a.path = NoPath
     /\ (e.file_path = NoPath \/ saveAs) => (a.path = NoPath => a.ok)}
\* The answers a close of editor e consults: the dialog opens for a
\* modified editor only.
CloseAnswers(e) ==
  IF e.modified
  THEN SaveAnswers(e, FALSE) \cup
       {a \in Answers : a.choice # "Save" /\ a.path = NoPath /\ a.ok}
  ELSE {[choice |-> "Cancel", path |-> NoPath, ok |-> TRUE]}

SetEditor(ts, id, e) == [ts EXCEPT ![IndexOf(ts, id)] = e]

\* _on_file_saved_as: the CURRENT editor gets the path.
OnFileSavedAs(ts, cur, rf, p) ==
  IF cur # 0
  THEN [tabs |-> SetEditor(ts, cur, [EditorOf(ts, cur) EXCEPT !.file_path = p]),
        recent_files |-> AddToRecentFiles(rf, p)]
  ELSE [tabs |-> ts, recent_files |-> rf]

\* FileManager.save_file_as(editor) with the dialog's answer.
SaveFileAs(ts, cur, rf, id, a) ==
  IF a.path = NoPath
  THEN [tabs |-> ts, recent_files |-> rf, result |-> FALSE, reported |-> FALSE,
        saves |-> {[id |-> id, path |-> NoPath, dialog |-> TRUE, result |-> FALSE]}]
  ELSE IF a.ok
  THEN LET clean == SetEditor(ts, id, [EditorOf(ts, id) EXCEPT !.modified = FALSE])
           r == OnFileSavedAs(clean, cur, rf, a.path)
       IN [tabs |-> r.tabs, recent_files |-> r.recent_files, result |-> TRUE,
           reported |-> FALSE,
           saves |-> {[id |-> id, path |-> a.path, dialog |-> TRUE, result |-> TRUE]}]
  ELSE [tabs |-> ts, recent_files |-> rf, result |-> FALSE, reported |-> TRUE,
        saves |-> {[id |-> id, path |-> a.path, dialog |-> TRUE, result |-> FALSE]}]

\* FileManager.save_file(editor).
SaveFile_MarksSavedOnError(ts, cur, rf, id, a) ==
  LET e == EditorOf(ts, id)
  IN IF e.file_path = NoPath THEN SaveFileAs(ts, cur, rf, id, a)
     ELSE [tabs |-> SetEditor(ts, id, [e EXCEPT !.modified = FALSE]),
           recent_files |-> rf, result |-> a.ok, reported |-> ~a.ok,
           saves |-> {[id |-> id, path |-> e.file_path, dialog |-> FALSE,
                       result |-> a.ok]}]
SaveFile(ts, cur, rf, id, a) ==
  LET e == EditorOf(ts, id)
  IN IF e.file_path = NoPath THEN SaveFileAs(ts, cur, rf, id, a)
     ELSE IF a.ok
     THEN [tabs |-> SetEditor(ts, id, [e EXCEPT !.modified = FALSE]),
           recent_files |-> rf, result |-> TRUE, reported |-> FALSE,
           saves |-> {[id |-> id, path |-> e.file_path, dialog |-> FALSE, result |-> TRUE]}]
     ELSE [tabs |-> ts, recent_files |-> rf, result |-> FALSE, reported |-> TRUE,
           saves |-> {[id |-> id, path |-> e.file_path, dialog |-> FALSE, result |-> FALSE]}]

\* The controller after construction with no saved session: one untitled
\* tab, no recent files.
TabsInit ==
  /\ tabs = <<NewEditor(1)>>
  /\ current = 1
  /\ recent_files = <<>>
  /\ tabOp = "none"
  /\ dialogs = {}
  /\ saves = {}
  /\ removed = {}
  /\ passes = 0
  /\ reported = FALSE
  /\ steps = 0

\* What every tab and file handler leaves alone.
TabFrame == UNCHANGED <<console, setv, repv>>

\* _handle_file_new.
FileNew ==
  LET n == NewTab(tabs, NewEditor(FreeId(tabs)))
  IN /\ Len(tabs) < MaxTabs
     /\ tabs' = n.tabs
     /\ current' = n.current
     /\ tabOp' = "file_new"
     /\ dialogs' = {}
     /\ saves' = {}
     /\ removed' = {}
     /\ passes' = 0
     /\ reported' = FALSE
     /\ steps < MaxSteps
     /\ steps' = steps + 1
     /\ UNCHANGED recent_files
     /\ TabFrame

\* _on_file_opened: a file that is open already only becomes current.
IsOpen(ts, p) == \E k \in 1..Len(ts) : ts[k].file_path = p
FirstWith(ts, p) == CHOOSE k \in 1..Len(ts) :
                      ts[k].file_path = p /\ \A j \in 1..(k - 1) : ts[j].file_path # p

\* FileManager.open_file with the path p of the dialog or of the recent
\* files menu (NoPath: dialog cancelled), then _on_file_opened; ok says
\* whether the file can be read, text is what it holds.
OpenFileWith(p, ok, text) ==
  LET n == NewTab(tabs, [id |-> FreeId(tabs), file_path |-> p, content |-> text,
                         modified |-> FALSE])
  IN /\ tabOp' = "open_file"
     /\ dialogs' = {}
     /\ saves' = {}
     /\ removed' = {}
     /\ passes' = 0
     /\ steps < MaxSteps
     /\ steps' = steps + 1
     /\ reported' = (p # NoPath /\ ~ok)
     /\ IF p = NoPath \/ ~ok
        THEN UNCHANGED <<tabs, current, recent_files>>
        ELSE IF IsOpen(tabs, p)
        THEN /\ current' = tabs[FirstWith(tabs, p)].id
             /\ UNCHANGED <<tabs, recent_files>>
        ELSE /\ Len(tabs) < MaxTabs
             /\ tabs' = n.tabs
             /\ current' = n.current
             /\ recent_files' = AddToRecentFiles(recent_files, p)
     /\ TabFrame

\* The content matters for a file that is read into a new tab.
OpenFile ==
  \E p \in Paths \cup {NoPath}, ok \in BOOLEAN, text \in Contents :
    /\ (p = NoPath \/ ~ok \/ IsOpen(tabs, p)) => text = ""
    /\ p = NoPath => ok
    /\ OpenFileWith(p, ok, text)

\* The user types in the current editor: the text changes and the document
\* is modified.
EditText ==
  \E text \in Contents :
    /\ current # 0
    /\ text # EditorOf(tabs, current).content
    /\ tabs' = SetEditor(tabs, current,
                          [EditorOf(tabs, current) EXCEPT !.content = text,
                                                          !.modified = TRUE])
    /\ tabOp' = "edit"
    /\ dialogs' = {}
    /\ saves' = {}
    /\ removed' = {}
    /\ passes' = 0
    /\ reported' = FALSE
    /\ steps < MaxSteps
    /\ steps' = steps + 1
    /\ UNCHANGED <<current, recent_files>>
    /\ TabFrame

\* The user selects another tab.
TabChanged ==
  \E k \in 1..Len(tabs) :
    /\ tabs[k].id # current
    /\ current' = tabs[k].id
    /\ tabOp' = "tab_changed"
    /\ dialogs' = {}
    /\ saves' = {}
    /\ removed' = {}
    /\ passes' = 0
    /\ reported' = FALSE
    /\ steps < MaxSteps
    /\ steps' = steps + 1
    /\ UNCHANGED <<tabs, recent_files>>
    /\ TabFrame

\* _handle_file_save(): the current editor.
FileSaveWith(a) ==
  LET r == SaveFile(tabs, current, recent_files, current, a)
  IN /\ current # 0
     /\ tabs' = r.tabs
     /\ recent_files' = r.recent_files
     /\ saves' = r.saves
     /\ removed' = {}
     /\ passes' = 0
     /\ reported' = r.reported
     /\ tabOp' = "file_save"
     /\ dialogs' = {}
     /\ steps < MaxSteps
     /\ steps' = steps + 1
     /\ UNCHANGED current
     /\ TabFrame

FileSave ==
  \E a \in Answers :
    /\ current # 0
    /\ a \in SaveAnswers(EditorOf(tabs, current), FALSE)
    /\ FileSaveWith(a)

\* _handle_file_save_as: the current editor.
FileSaveAsWith(a) ==
  LET r == SaveFileAs(tabs, current, recent_files, current, a)
  IN /\ current # 0
     /\ tabs' = r.tabs
     /\ recent_files' = r.recent_files
     /\ saves' = r.saves
     /\ removed' = {}
     /\ passes' = 0
     /\ reported' = r.reported
     /\ tabOp' = "file_save_as"
     /\ dialogs' = {}
     /\ steps < MaxSteps
     /\ steps' = steps + 1
     /\ UNCHANGED current
     /\ TabFrame

FileSaveAs ==
  \E a \in Answers :
    /\ current # 0
    /\ a \in SaveAnswers(EditorOf(tabs, current), TRUE)
    /\ FileSaveAsWith(a)

\* _handle_duplicate_tab.
DuplicateTab ==
  LET n == NewTab(tabs, [EditorOf(tabs, current) EXCEPT !.id = FreeId(tabs)])
  IN /\ current # 0
     /\ Len(tabs) < MaxTabs
     /\ tabs' = n.tabs
     /\ current' = n.current
     /\ tabOp' = "duplicate_tab"
     /\ dialogs' = {}
     /\ saves' = {}
     /\ removed' = {}
     /\ passes' = 0
     /\ reported' = FALSE
     /\ steps < MaxSteps
     /\ steps' = steps + 1
     /\ UNCHANGED recent_files
     /\ TabFrame

\* _handle_tab_close_request(index) with the answers a of the dialogs it
\* opens.  The Save branch saves and keeps the tab.
CloseRequest_RemovesOnSave(ts, cur, rf, i, a) ==
  LET e == ts[i]
      rm == RemoveTab(ts, cur, i)
      r == SaveFile(ts, cur, rf, e.id, a)
      quiet == [tabs |-> ts, current |-> cur, recent_files |-> rf, dialogs |-> {},
                saves |-> {}, removed |-> {}, reported |-> FALSE]
      taken == {[id |-> e.id, modified |-> e.modified]}
      asked == [quiet EXCEPT !.dialogs = {[id |-> e.id, choice |-> a.choice]}]
  IN IF e.modified
     THEN CASE a.choice = "Save" ->
                 [asked EXCEPT !.tabs = rm.tabs, !.current = rm.current,
                               !.recent_files = r.recent_files, !.saves = r.saves,
                               !.reported = r.reported, !.removed = taken]
            [] a.choice = "Discard" ->
                 [asked EXCEPT !.tabs = rm.tabs, !.current = rm.current,
                               !.removed = taken]
            [] OTHER -> asked
     ELSE [quiet EXCEPT !.tabs = rm.tabs, !.current = rm.current, !.removed = taken]
CloseRequest(ts, cur, rf, i, a) ==
  LET e == ts[i]
      rm == RemoveTab(ts, cur, i)
      r == SaveFile(ts, cur, rf, e.id, a)
      quiet == [tabs |-> ts, current |-> cur, recent_files |-> rf, dialogs |-> {},
                saves |-> {}, removed |-> {}, reported |-> FALSE]
      taken == {[id |-> e.id, modified |-> e.modified]}
      asked == [quiet EXCEPT !.dialogs = {[id |-> e.id, choice |-> a.choice]}]
  IN IF e.modified
     THEN CASE a.choice = "Save" ->
                 [asked EXCEPT !.tabs = r.tabs, !.recent_files = r.recent_files,
                               !.saves = r.saves, !.reported = r.reported]
            [] a.choice = "Discard" ->
                 [asked EXCEPT !.tabs = rm.tabs, !.current = rm.current,
                               !.removed = taken]
            [] OTHER -> asked
     ELSE [quiet EXCEPT !.tabs = rm.tabs, !.current = rm.current, !.removed = taken]

\* "if self.ui.tabs.count() == 0: self._handle_file_new()".
NewIfEmpty_Never(ts, cur) == [tabs |-> ts, current |-> cur]
NewIfEmpty(ts, cur) ==
  IF ts = <<>> THEN NewTab(ts, NewEditor(FreeId(ts))) ELSE [tabs |-> ts, current |-> cur]

TabCloseRequest ==
  \E i \in 1..Len(tabs) : \E a \in CloseAnswers(tabs[i]) :
    LET c == CloseRequest(tabs, current, recent_files, i, a)
        n == NewIfEmpty(c.tabs, c.current)
    IN /\ tabs' = n.tabs
       /\ current' = n.current
       /\ recent_files' = c.recent_files
       /\ dialogs' = c.dialogs
       /\ saves' = c.saves
       /\ removed' = c.removed
       /\ passes' = 0
       /\ reported' = c.reported
       /\ tabOp' = "tab_close_request"
       /\ steps < MaxSteps
       /\ steps' = steps + 1
       /\ TabFrame

\* _handle_close_all_tabs: the loop over widget(0); ans gives the answers
\* for each editor.  done: the loop ended with no tab left; passes: the
\* times the loop body was entered.
CloseAllLoop_NoLoop(st, ans) == [st EXCEPT !.done = TRUE]
RECURSIVE CloseAllLoop(_, _)
CloseAllLoop(st, ans) ==
  IF st.tabs = <<>> THEN [st EXCEPT !.done = TRUE]
  ELSE LET e == st.tabs[1]
           a == ans[e.id]
           rm == RemoveTab(st.tabs, st.current, 1)
           r == SaveFile(st.tabs, st.current, st.recent_files, e.id, a)
           entered == [st EXCEPT !.passes = @ + 1]
           asked == [entered EXCEPT !.dialogs = @ \cup {[id |-> e.id, choice |-> a.choice]}]
           gone == [tabs |-> rm.tabs, current |-> rm.current,
                    removed |-> st.removed \cup {[id |-> e.id, modified |-> e.modified]}]
           kept == [asked EXCEPT !.tabs = r.tabs, !.recent_files = r.recent_files,
                                 !.saves = @ \cup r.saves,
                                 !.reported = @ \/ r.reported]
       IN IF e.modified
          THEN CASE a.choice = "Save" ->
                      IF r.result THEN CloseAllLoop(kept, ans) ELSE kept
                 [] a.choice = "Discard" ->
                      CloseAllLoop([asked EXCEPT !.tabs = gone.tabs,
                                                 !.current = gone.current,
                                                 !.removed = gone.removed], ans)
                 [] OTHER -> asked
          ELSE CloseAllLoop([entered EXCEPT !.tabs = gone.tabs, !.current = gone.current,
                                       !.removed = gone.removed], ans)

\* The answers for the editors of ts, in tab order.
RECURSIVE AnswerSeqs(_)
AnswerSeqs(ts) ==
  IF ts = <<>> THEN {<<>>}
  ELSE {<<a>> \o rest : a \in CloseAnswers(Head(ts)), rest \in AnswerSeqs(Tail(ts))}

CloseAllTabs ==
  \E byTab \in AnswerSeqs(tabs) :
    LET ans == [id \in Ids(tabs) |-> byTab[IndexOf(tabs, id)]]
        c == CloseAllLoop([tabs |-> tabs, current |-> current,
                           recent_files |-> recent_files, dialogs |-> {},
                           saves |-> {}, removed |-> {}, reported |-> FALSE,
                           passes |-> 0, done |-> FALSE], ans)
        n == IF c.done THEN NewTab(c.tabs, NewEditor(FreeId(c.tabs)))
             ELSE [tabs |-> c.tabs, current |-> c.current]
    IN /\ tabs' = n.tabs
       /\ current' = n.current
       /\ recent_files' = c.recent_files
       /\ dialogs' = c.dialogs
       /\ saves' = c.saves
       /\ removed' = c.removed
       /\ passes' = c.passes
       /\ reported' = c.reported
       /\ tabOp' = "close_all_tabs"
       /\ steps < MaxSteps
       /\ steps' = steps + 1
       /\ TabFrame

TabsNext ==
  \/ FileNew
  \/ OpenFile
  \/ EditText
  \/ TabChanged
  \/ FileSave
  \/ FileSaveAs
  \/ DuplicateTab
  \/ TabCloseRequest
  \/ CloseAllTabs

\* ------------------------------------------- the recent files list at its limit
\* A session in which MaxRecent - 1 or MaxRecent files were opened one
\* after the other, each tab closed before the next open: the list holds
\* them newest first and one untitled tab is open.
Descending(k) == [i \in 1..k |-> k + 1 - i]
RecentTabsInit ==
  /\ tabs = <<NewEditor(1)>>
  /\ current = 1
  /\ recent_files \in {Descending(k) : k \in (MaxRecent - 1)..MaxRecent}
  /\ tabOp = "none"
  /\ dialogs = {}
  /\ saves = {}
  /\ removed = {}
  /\ passes = 0
  /\ reported = FALSE
  /\ steps = 0

\* The paths the user picks: the oldest file of the list, its newest ones
\* and one that is not in it.
RecentInputs == {1, MaxRecent - 1, MaxRecent, MaxRecent + 1}

RecentOpen == \E p \in RecentInputs, ok \in BOOLEAN : OpenFileWith(p, ok, "x")
RecentSaveAs ==
  \E p \in RecentInputs, ok \in BOOLEAN :
    FileSaveAsWith([choice |-> "Save", path |-> p, ok |-> ok])

RecentNext ==
  \/ RecentOpen
  \/ RecentSaveAs
  \/ EditText
  \/ TabCloseRequest

\* ------------------------------------------------------------ Replace All
\* Documents of up to MaxDoc characters over two spellings of one letter
\* and the blank.
MaxDoc == 3
Alphabet == {"a", "A", " "}
Docs == Lists(Alphabet, MaxDoc)
Finds == {<<"a">>, <<"A">>, <<"a", "a">>}
Replacements == {<<"b">>, <<>>}

\* Case folding, and the characters \w matches.
Fold(c) == IF c = "A" THEN "a" ELSE c
IsWordChar(c) == c \in {"a", "A", "b"}

\* find occurs in text at offset pos (0-based), letter case ignored or not.
MatchAt(text, pos, find, ignoreCase) ==
  /\ pos + Len(find) <= Len(text)
  /\ \A k \in 1..Len(find) :
        IF ignoreCase THEN Fold(text[pos + k]) = Fold(find[k])
        ELSE text[pos + k] = find[k]
\* The regular expression's \b at offset pos.
WordBoundary(text, pos) ==
  LET left == pos >= 1 /\ IsWordChar(text[pos])
      right == pos < Len(text) /\ IsWordChar(text[pos + 1])
  IN left # right

\* re.sub and str.replace for a find text that is not empty: the
\* occurrences are taken from the left and do not overlap.
RECURSIVE Sub(_, _, _, _, _, _)
Sub(text, pos, find, repl, ignoreCase, wholeWord) ==
  IF pos >= Len(text) THEN <<>>
  ELSE IF /\ MatchAt(text, pos, find, ignoreCase)
          /\ wholeWord => (WordBoundary(text, pos) /\ WordBoundary(text, pos + Len(find)))
  THEN repl \o Sub(text, pos + Len(find), find, repl, ignoreCase, wholeWord)
  ELSE <<text[pos + 1]>> \o Sub(text, pos + 1, find, repl, ignoreCase, wholeWord)

StrReplace(text, find, repl) == Sub(text, 0, find, repl, FALSE, FALSE)
ReSub(text, find, repl, ignoreCase, wholeWord) == Sub(text, 0, find, repl, ignoreCase, wholeWord)

\* _handle_find_replace, action "replace_all": the new content.
ReplaceAllText(content, find, repl, case_sensitive, whole_word) ==
  IF ~case_sensitive
  THEN IF whole_word THEN ReSub(content, find, repl, ~case_sensitive, TRUE)
       ELSE StrReplace(content, find, repl)
  ELSE StrReplace(content, find, repl)

NoParams == [find_text |-> <<>>, replace_text |-> <<>>, case_sensitive |-> FALSE,
             whole_word |-> FALSE]

\* No dialog has run.
ReplaceIdle ==
  /\ before = <<>>
  /\ params = NoParams
  /\ replOp = "none"

\* The editor holds a text the user typed.
ReplaceInit ==
  /\ doc \in Docs
  /\ ReplaceIdle

\* _handle_find_replace with the dialog accepted for "Replace All".
ReplaceAll ==
  \E find \in Finds, repl \in Replacements, cs \in BOOLEAN, ww \in BOOLEAN :
    /\ doc' = ReplaceAllText(doc, find, repl, cs, ww)
    /\ before' = doc
    /\ params' = [find_text |-> find, replace_text |-> repl, case_sensitive |-> cs,
                   whole_word |-> ww]
    /\ replOp' = "replace_all"
    /\ UNCHANGED <<console, setv, tabv, tabobs>>

ReplaceNext ==
  \/ ReplaceAll

\* ------------------------------------------------------------------- Init
\* InteractiveConsole.__init__, ScriptRunner.__init__ and the UI's menu bar.
ConsoleInit ==
  LET s == SetPrompt(<<>>, 0, InitPrompt)
  IN /\ buf = s.buf
     /\ cursor = s.cursor
     /\ line_start = s.line_start
     /\ prompt = s.prompt
     /\ sp = s.sp
     /\ history = <<>>
     /\ history_index = -1
     /\ readOnly = TRUE
     /\ procState = "NotRunning"
     /\ stopEnabled = FALSE
     /\ killed = FALSE
     /\ lastOp = "Init"
     /\ emitted = <<>>
     /\ written = <<>>
     /\ errors = <<>>
     /\ forced = FALSE
     /\ passPos = -1
     /\ prevIndex = -1
     /\ line = <<>>
     /\ events = 0

Init == ConsoleInit /\ SettingsInit /\ TabsInit /\ doc = <<>> /\ ReplaceIdle

\* ------------------------------------------------------------- key events
\* keyPressEvent for a key other than Up, Down, Return and Enter.
OtherKey(key) ==
  LET c == KeyCursor
      r == DefaultKey(key, buf, c, readOnly)
  IN /\ buf' = r.buf
     /\ cursor' = r.cursor
     /\ forced' = NeedsForce(cursor, line_start)
     /\ passPos' = c
     /\ prevIndex' = history_index
     /\ line' = LineText(buf, c)
     /\ lastOp' = "OtherKey"
     /\ emitted' = <<>>
     /\ written' = <<>>
     /\ errors' = <<>>
     /\ events < MaxEvents
     /\ events' = events + 1
     /\ sp' = NoPrompt
     /\ UNCHANGED <<line_start, prompt, history, history_index, readOnly, proc>>
     /\ UNCHANGED desk

KeyPrintable ==
  \E ch \in Printable : OtherKey(ch)

KeyEdit == \E key \in EditKeys : OtherKey(key)

\* keyPressEvent for Up and Down: _handle_history_navigation.
HistoryNavigation(key) ==
  LET c == KeyCursor
      i == IF key = "Up" THEN UpIndex(history, history_index)
           ELSE DownIndex(history, history_index)
      r == ReplaceLine(buf, c, prompt, history, i)
  IN /\ forced' = NeedsForce(cursor, line_start)
     /\ passPos' = -1
     /\ prevIndex' = history_index
     /\ line' = LineText(buf, c)
     /\ lastOp' = key
     /\ emitted' = <<>>
     /\ written' = <<>>
     /\ errors' = <<>>
     /\ IF history = <<>>
        THEN /\ cursor' = c
             /\ UNCHANGED <<buf, history_index>>
        ELSE /\ buf' = r.buf
             /\ cursor' = r.cursor
             /\ history_index' = i
     /\ events < MaxEvents
     /\ events' = events + 1
     /\ sp' = NoPrompt
     /\ UNCHANGED <<line_start, prompt, history, readOnly, proc>>
     /\ UNCHANGED desk

KeyUp == HistoryNavigation("Up")
KeyDown == HistoryNavigation("Down")

\* keyPressEvent for Return and Enter: _handle_command_entry.
KeyEnter ==
  LET c == KeyCursor
      command == Command(LineText(buf, c), prompt)
      a == AppendPlainText(buf, <<NL>>)
      s == SetPrompt(a.buf, a.cursor, prompt)
  IN /\ events < MaxEvents
     /\ events' = events + 1
     /\ history' = PushHistory(history, command)
     /\ history_index' = -1
     /\ emitted' = <<command>>
     /\ written' = WriteToStdin(procState, command)
     /\ errors' = <<>>
     /\ buf' = s.buf
     /\ cursor' = s.cursor
     /\ line_start' = s.line_start
     /\ prompt' = s.prompt
     /\ sp' = s.sp
     /\ forced' = NeedsForce(cursor, line_start)
     /\ passPos' = -1
     /\ prevIndex' = history_index
     /\ line' = LineText(buf, c)
     /\ lastOp' = "Enter"
     /\ UNCHANGED <<readOnly, proc>>
     /\ UNCHANGED desk

\* ------------------------------------------------- runner and controller
\* ScriptRunner.run_script: the message it emits and the process state
\* after process.start (a QProcess that is not idle refuses to start).
RunMessage(exists) == IF exists THEN RunningMsg ELSE NotFoundMsg
RunErrors(exists) == IF exists THEN <<>> ELSE <<NotFoundMsg>>
StartProcess_NoCheck(st, exists) == IF st = "NotRunning" THEN "Starting" ELSE st
StartProcess(st, exists) == IF exists /\ st = "NotRunning" THEN "Starting" ELSE st

\* _run_current_script, for a saved file.
RunCurrentScript ==
  \E exists \in BOOLEAN :
    LET a == AppendPlainText(<<>>, RunMessage(exists))
    IN /\ readOnly' = TRUE
       /\ buf' = a.buf
       /\ cursor' = a.cursor
       /\ stopEnabled' = TRUE
       /\ procState' = StartProcess(procState, exists)
       /\ UNCHANGED killed
       /\ lastOp' = "RunCurrentScript"
       /\ emitted' = <<>>
       /\ written' = <<>>
       /\ errors' = RunErrors(exists)
       /\ forced' = FALSE
       /\ passPos' = -1
       /\ prevIndex' = history_index
       /\ line' = <<>>
       /\ events < MaxEvents
       /\ events' = events + 1
       /\ sp' = NoPrompt
       /\ UNCHANGED <<line_start, prompt, history, history_index>>
       /\ UNCHANGED desk

\* _run_with_debugger, for a saved file.
RunWithDebugger_ForgetsHistory ==
  \E exists \in BOOLEAN :
    LET s == SetPrompt(<<>>, 0, PdbPrompt)
        a == AppendPlainText(s.buf, RunMessage(exists))
    IN /\ readOnly' = FALSE
       /\ buf' = a.buf
       /\ cursor' = a.cursor
       /\ line_start' = s.line_start
       /\ prompt' = s.prompt
       /\ sp' = s.sp
       /\ stopEnabled' = TRUE
       /\ procState' = StartProcess(procState, exists)
       /\ UNCHANGED killed
       /\ lastOp' = "RunWithDebugger"
       /\ emitted' = <<>>
       /\ written' = <<>>
       /\ errors' = RunErrors(exists)
       /\ forced' = FALSE
       /\ passPos' = -1
       /\ prevIndex' = history_index
       /\ line' = <<>>
       /\ events < MaxEvents
       /\ events' = events + 1
       /\ history' = <<>>
       /\ history_index' = -1
       /\ UNCHANGED desk
RunWithDebugger ==
  \E exists \in BOOLEAN :
    LET s == SetPrompt(<<>>, 0, PdbPrompt)
        a == AppendPlainText(s.buf, RunMessage(exists))
    IN /\ readOnly' = FALSE
       /\ buf' = a.buf
       /\ cursor' = a.cursor
       /\ line_start' = s.line_start
       /\ prompt' = s.prompt
       /\ sp' = s.sp
       /\ stopEnabled' = TRUE
       /\ procState' = StartProcess(procState, exists)
       /\ UNCHANGED killed
       /\ lastOp' = "RunWithDebugger"
       /\ emitted' = <<>>
       /\ written' = <<>>
       /\ errors' = RunErrors(exists)
       /\ forced' = FALSE
       /\ passPos' = -1
       /\ prevIndex' = history_index
       /\ line' = <<>>
       /\ events < MaxEvents
       /\ events' = events + 1
       /\ UNCHANGED <<history, history_index>>
       /\ UNCHANGED desk

\* The child process comes up.
ProcessStarted ==
  /\ procState = "Starting"
  /\ procState' = "Running"
  /\ lastOp' = "ProcessStarted"
  /\ emitted' = <<>>
  /\ written' = <<>>
  /\ errors' = <<>>
  /\ forced' = FALSE
  /\ passPos' = -1
  /\ prevIndex' = history_index
  /\ line' = <<>>
  /\ sp' = NoPrompt
  /\ UNCHANGED <<cons, stopEnabled, killed, cnt>>
  /\ UNCHANGED desk

\* _read_stdout / _read_stderr: a chunk goes to console.appendPlainText.
ReadOutput(op) ==
  \E chunk \in Chunks :
    LET a == AppendPlainText(buf, chunk)
    IN /\ procState = "Running"
       /\ buf' = a.buf
       /\ cursor' = a.cursor
       /\ lastOp' = op
       /\ emitted' = <<>>
       /\ written' = <<>>
       /\ errors' = <<>>
       /\ forced' = FALSE
       /\ passPos' = -1
       /\ prevIndex' = history_index
       /\ line' = <<>>
       /\ events < MaxEvents
       /\ events' = events + 1
       /\ sp' = NoPrompt
       /\ UNCHANGED <<line_start, prompt, history, history_index, readOnly, proc>>
       /\ UNCHANGED desk

ReadStdout == ReadOutput("ReadOutput")
ReadStderr == ReadOutput("ReadOutput")

\* process.finished -> finished_signal -> _on_script_finished.
ScriptFinished ==
  \E code \in ExitCodes :
    LET a == AppendPlainText(buf, FinishedMsg(code))
    IN /\ procState = "Running"
       /\ procState' = "NotRunning"
       /\ killed' = FALSE
       /\ stopEnabled' = FALSE
       /\ readOnly' = TRUE
       /\ buf' = a.buf
       /\ cursor' = a.cursor
       /\ lastOp' = "ScriptFinished"
       /\ emitted' = <<>>
       /\ written' = <<>>
       /\ errors' = <<>>
       /\ forced' = FALSE
       /\ passPos' = -1
       /\ prevIndex' = history_index
       /\ line' = <<>>
       /\ sp' = NoPrompt
       /\ UNCHANGED <<line_start, prompt, history, history_index, cnt>>
       /\ UNCHANGED desk

\* ScriptRunner.stop_script: process.kill() for a process in state Running.
Kill_Never(st, k) == k
Kill(st, k) == k \/ st = "Running"

\* stop_script_action -> ScriptRunner.stop_script.  The action can be
\* triggered while it is enabled; a running process is killed (its finished
\* signal comes later) and the message goes to console.appendPlainText.
StopScript ==
  LET a == AppendPlainText(buf, TerminatedMsg)
  IN /\ stopEnabled
     /\ killed' = Kill(procState, killed)
     /\ IF procState = "Running"
        THEN buf' = a.buf /\ cursor' = a.cursor
        ELSE UNCHANGED <<buf, cursor>>
     /\ lastOp' = "StopScript"
     /\ emitted' = <<>>
     /\ written' = <<>>
     /\ errors' = <<>>
     /\ forced' = FALSE
     /\ passPos' = -1
     /\ prevIndex' = history_index
     /\ line' = <<>>
     /\ events < MaxEvents
     /\ events' = events + 1
     /\ sp' = NoPrompt
     /\ UNCHANGED <<line_start, prompt, history, history_index, readOnly>>
     /\ UNCHANGED <<procState, stopEnabled>>
     /\ UNCHANGED desk

Next ==
  \/ KeyPrintable
  \/ KeyEdit
  \/ KeyUp
  \/ KeyDown
  \/ KeyEnter
  \/ RunCurrentScript
  \/ RunWithDebugger
  \/ ProcessStarted
  \/ ReadStdout
  \/ ReadStderr
  \/ ScriptFinished

Spec == Init /\ [][Next]_vars

\* The run lifecycle with the stop request: the user types, submits and
\* recalls commands (no editing or cursor key) while scripts are started,
\* stopped and finish.
RunNext ==
  \/ KeyPrintable
  \/ KeyUp
  \/ KeyDown
  \/ KeyEnter
  \/ RunCurrentScript
  \/ RunWithDebugger
  \/ ProcessStarted
  \/ ReadStdout
  \/ ReadStderr
  \/ ScriptFinished
  \/ StopScript

SpecRun == Init /\ [][RunNext]_vars

\* Runs, stop requests and the process's events, with debugger commands
\* submitted in between.  A killed process exits and Qt delivers its
\* finished signal: the exit-code event of a killed process is not put off
\* forever.
StopNext ==
  \/ KeyEnter
  \/ RunCurrentScript
  \/ RunWithDebugger
  \/ ProcessStarted
  \/ ReadStdout
  \/ ReadStderr
  \/ ScriptFinished
  \/ StopScript

SpecStop == Init /\ [][StopNext]_vars /\ WF_vars(killed /\ ScriptFinished)

\* The settings store over save_settings and load_settings calls.
SpecSettings == Init /\ [][SettingsNext]_vars

\* The tabs, their editors and the recent files over the tab and file
\* handlers.
SpecTabs == Init /\ [][TabsNext]_vars

\* Replace All on a document the user typed.
ReplaceDocInit == ConsoleInit /\ SettingsInit /\ TabsInit /\ ReplaceInit
SpecReplace == ReplaceDocInit /\ [][ReplaceNext]_vars

\* Opens, edits, Save As and closes with the recent files list at its limit.
RecentInit == ConsoleInit /\ SettingsInit /\ RecentTabsInit /\ doc = <<>> /\ ReplaceIdle
SpecRecent == RecentInit /\ [][RecentNext]_vars

\* ------------------------------------------------------------ type check
TypeOK ==
  /\ cursor \in 0..Len(buf)
  /\ prompt \in Prompts
  /\ readOnly \in BOOLEAN
  /\ procState \in {"NotRunning", "Starting", "Running"}

\* ----------------------------------------------------------------- claims
KeyOps == {"OtherKey", "Up", "Down", "Enter"}
NavOps == {"Up", "Down"}

\* The line holding the cursor, and its text after the prompt's length.
CurrentLine == LineText(buf, cursor)
CurrentLineText == Drop(CurrentLine, Len(prompt))

\* The buffer from line_start to its end.
Region == SubSeq(buf, line_start + 1, Len(buf))

\* C1: a key event changes no character of the buffer at a position below
\* line_start: every character that was there before the key is still there,
\* at its place, after it.
C1_PrefixImmutable ==
  [][lastOp' \in KeyOps =>
       \A k \in 1..Min(line_start, Len(buf)) : k <= Len(buf') /\ buf'[k] = buf[k]]_vars

\* C2: Enter with command c leaves history unchanged when c is empty or
\* equals history[0], and otherwise puts c in front of the old history; no
\* two adjacent history entries are equal.
C2_HistoryPush ==
  /\ [][lastOp' = "Enter" =>
          LET c == emitted'[1]
          IN history' = IF c = <<>> \/ (history # <<>> /\ history[1] = c)
                        THEN history ELSE <<c>> \o history]_vars
  /\ [](\A k \in 1..(Len(history) - 1) : history[k] # history[k + 1])
\* Three commands were pushed and the newest equals the oldest.
C2_Witness ==
  /\ lastOp = "Enter"
  /\ Len(history) = 3
  /\ history[1] = history[3]
  /\ emitted = <<history[1]>>

\* C3: history_index stays within -1 .. len(history)-1; Up adds one while
\* it is below len(history)-1 and otherwise leaves it at len(history)-1;
\* Down takes one off while it is above -1 and otherwise leaves it at -1.
C3_IndexRange ==
  /\ -1 <= history_index
  /\ history_index <= Len(history) - 1
  /\ lastOp = "Up" =>
       history_index = IF prevIndex < Len(history) - 1 THEN prevIndex + 1
                       ELSE Len(history) - 1
  /\ lastOp = "Down" =>
       history_index = IF prevIndex > -1 THEN prevIndex - 1 ELSE -1
\* An Up press at the last index of a history of one command.
C3_Witness ==
  /\ lastOp = "Up"
  /\ Len(history) = 1
  /\ prevIndex = 0
  /\ history_index = 0

\* C4: after an Up or Down press that leaves history_index = i >= 0 the
\* input line is the prompt followed by history[i], with the cursor at its
\* end, whatever the line held before.
C4_RecallShowsEntry ==
  (lastOp \in NavOps /\ history_index >= 0) =>
    /\ CurrentLine = prompt \o history[history_index + 1]
    /\ CurrentLineText = history[history_index + 1]
    /\ cursor = EndOfLine(buf, cursor)
\* A second Up on a history of one command, on a line that held other text.
C4_Witness ==
  /\ lastOp = "Up"
  /\ Len(history) = 1
  /\ prevIndex = 0
  /\ history_index = 0
  /\ line # prompt \o history[1]
  /\ Len(line) > Len(prompt)

\* C5: Enter on an input line made of the prompt followed by text t emits t
\* without its leading and trailing whitespace; when that is not empty it
\* is the newest history entry.
C5_EmitsTrimmed ==
  (lastOp = "Enter" /\ IsPrefix(prompt, line)) =>
    LET t == Drop(line, Len(prompt))
    IN /\ emitted = <<Strip(t)>>
       /\ Strip(t) # <<>> => (history # <<>> /\ history[1] = Strip(t))
\* " a " was submitted.
C5_Witness ==
  /\ lastOp = "Enter"
  /\ line = prompt \o <<" ", "a", " ">>
  /\ emitted = << <<"a">> >>
  /\ history = << <<"a">> >>

\* C6: Enter emits the buffer text from line_start to the end of the
\* buffer, without its leading and trailing whitespace.
C6_EmitsRegion ==
  [][lastOp' = "Enter" => emitted' = <<Strip(Region)>>]_vars

\* C7: every Enter press sets history_index to -1, emits one command,
\* appends a newline and the prompt to the buffer, and leaves line_start and
\* the cursor at the end of the buffer.
C7_EnterRearms ==
  [][lastOp' = "Enter" =>
       /\ history_index' = -1
       /\ Len(emitted') = 1
       /\ buf' = buf \o <<NL>> \o prompt
       /\ prompt' = prompt
       /\ line_start' = Len(buf')
       /\ cursor' = Len(buf')]_vars
\* Enter on a recalled command: history_index was 0.
C7_Witness ==
  /\ lastOp = "Enter"
  /\ prevIndex = 0
  /\ history_index = -1
  /\ emitted # << <<>> >>

\* C8: each setPrompt call appends the prompt at the end of the buffer and
\* leaves line_start and the cursor at the end of the buffer as it is after
\* the append; the calls are those of the construction, of Enter and of a
\* debugger run.
C8_PromptAtEnd ==
  /\ sp # NoPrompt <=> lastOp \in {"Init", "Enter", "RunWithDebugger"}
  /\ sp # NoPrompt =>
       /\ sp.after = sp.before + Len(prompt)
       /\ sp.line_start = sp.after
       /\ sp.cursor = sp.line_start
\* A debugger run started from a console that held more than its prompt.
C8_Witness ==
  /\ lastOp = "RunWithDebugger"
  /\ sp.before = 0
  /\ sp.line_start = Len(PdbPrompt)
  /\ history # <<>>

\* C9: a key event that finds the cursor before line_start reaches default
\* line editing with the cursor at the end of the buffer, and every key
\* that reaches default line editing does so with the cursor at or after
\* line_start.
C9_EditInsideRegion ==
  [][lastOp' = "OtherKey" =>
       /\ cursor < line_start => passPos' = Len(buf)
       /\ line_start <= passPos'
       /\ passPos' <= Len(buf)]_vars

\* C10 as claimed: after a Down press that leaves history_index at -1 the
\* text of the input line after the prompt is empty, with an empty history
\* too.
C10_DownClears ==
  (lastOp = "Down" /\ history_index = -1) => CurrentLineText = <<>>
\* C10 as amended: after a Down press that leaves history_index at -1 with
\* a history that is not empty, the input line is the prompt alone; with an
\* empty history the press leaves the line as it was.
C10_DownClearsNonEmptyHistory ==
  (lastOp = "Down" /\ history_index = -1) =>
    IF history # <<>> THEN CurrentLine = prompt /\ CurrentLineText = <<>>
    ELSE CurrentLine = line
\* Down from index 0 on a line that held a recalled command.
C10_Witness ==
  /\ lastOp = "Down"
  /\ prevIndex = 0
  /\ history_index = -1
  /\ history # <<>>
  /\ Len(line) > Len(prompt)

\* C11 as claimed: after a setPrompt call made with the buffer ending at
\* position E, the region that accepts edits begins at E.
C11_RegionAtCallEnd ==
  sp # NoPrompt => sp.line_start = sp.before
\* C11 as amended: after a setPrompt call made with the buffer ending at
\* position E the prompt occupies [E, E + len(prompt)) and the region that
\* accepts edits begins after it, at line_start = E + len(prompt).
C11_RegionAfterPrompt ==
  sp # NoPrompt =>
    /\ line_start = sp.before + Len(prompt)
    /\ SubSeq(buf, sp.before + 1, line_start) = prompt
    /\ sp.before < line_start
\* The setPrompt call of an Enter press: the buffer ended at E > 0.
C11_Witness ==
  /\ lastOp = "Enter"
  /\ sp.before > Len(prompt)
  /\ line_start = Len(buf)

\* C15: the command an Enter press emits goes to write_to_stdin, which
\* writes the command and a newline to the child when the process is
\* Running and writes nothing otherwise; no other handler writes to the
\* child, so a dropped command is never written later.
C15_WritesIffRunning ==
  /\ lastOp = "Enter" =>
       /\ Len(emitted) = 1
       /\ written = IF procState = "Running" THEN <<emitted[1] \o <<NL>>>> ELSE <<>>
  /\ lastOp # "Enter" => written = <<>>
\* The command "a" was written to a running debugger.
C15_Witness ==
  /\ lastOp = "Enter"
  /\ procState = "Running"
  /\ emitted = << <<"a">> >>
  /\ written = << <<"a", NL>> >>

RunOps == {"RunCurrentScript", "RunWithDebugger"}

\* C16: a run request for a path that does not exist sends one error
\* message, which ends up at the end of the console buffer, and leaves the
\* process state as it was; an exit code is delivered only for a process
\* that was Running, so none comes from a request that started nothing.
C16_MissingFile ==
  [][/\ (lastOp' \in RunOps /\ errors' # <<>>) =>
          /\ errors' = <<NotFoundMsg>>
          /\ buf' = (IF lastOp' = "RunWithDebugger" THEN PdbPrompt ELSE <<>>)
                      \o NotFoundMsg
          /\ procState' = procState
     /\ lastOp' \notin RunOps => errors' = <<>>
     /\ lastOp' = "ScriptFinished" => procState = "Running"]_vars
\* A run request for a missing file with no process around.
C16_Witness ==
  /\ lastOp = "RunCurrentScript"
  /\ errors = <<NotFoundMsg>>
  /\ procState = "NotRunning"
  /\ buf = NotFoundMsg

LifecycleOps == RunOps \cup {"ProcessStarted", "ScriptFinished", "StopScript"}

\* What a handler of the run lifecycle may do to the console.
RunStepKeepsHistory ==
  /\ lastOp' \in LifecycleOps =>
       /\ history' = history
       /\ history_index' = history_index
  /\ lastOp' \in RunOps =>
       buf' = (IF lastOp' = "RunWithDebugger" THEN PdbPrompt ELSE <<>>)
                \o RunMessage(errors' = <<>>)

\* C17: a run start, a process start, a finish and a stop request leave
\* history and history_index as they were; a run start leaves nothing of the
\* old console buffer, which then holds the debugger prompt (debugger run)
\* and the runner's message only; the settings store has no history key.
C17_RunsKeepHistory ==
  /\ []("history" \notin DOMAIN settings)
  /\ [][RunStepKeepsHistory]_vars
\* A plain run started in a session whose history holds a command
\* submitted earlier.
C17_Witness ==
  /\ lastOp = "RunCurrentScript"
  /\ history # <<>>
  /\ buf = RunningMsg
  /\ procState = "Starting"

\* C12: a load_settings call that follows a save_settings call returns
\* the font size, the recent files, the dark-mode flag and the tab list
\* that were saved.
C12_RoundTrip ==
  (setOp = "load_settings" /\ saved # <<>>) => loaded = saved

\* The path a step put in the recent files: the path of the tab an open
\* added, or the path a Save As wrote.
OpenedInNewTab == tabOp' = "open_file" /\ Len(tabs') = Len(tabs) + 1
SavedAs == \E sv \in saves' : sv.dialog /\ sv.result
AddedPath ==
  IF OpenedInNewTab THEN tabs'[Len(tabs')].file_path
  ELSE (CHOOSE sv \in saves' : sv.dialog /\ sv.result).path
\* The list with p moved or put in front and cut to MaxRecent entries.
WithNewest(l, p) ==
  LET m == <<p>> \o SelectSeq(l, LAMBDA x : x # p)
  IN SubSeq(m, 1, Min(MaxRecent, Len(m)))
RecentStep ==
  (OpenedInNewTab \/ SavedAs) =>
     /\ recent_files'[1] = AddedPath
     /\ recent_files' = WithNewest(recent_files, AddedPath)

\* C13: recent_files never holds more than MaxRecent (10) paths nor a path
\* twice; a step that opens a path in a new tab or saves as a path leaves
\* that path at index 0, the other paths in their order, and drops the
\* oldest path when the list would hold more than 10.
C13_RecentFiles ==
  /\ [](/\ Len(recent_files) <= MaxRecent
        /\ \A i, j \in 1..Len(recent_files) :
             i # j => recent_files[i] # recent_files[j])
  /\ [][RecentStep]_vars
\* A path that was not in a full list was opened: it is in front and the
\* oldest path is gone.
C13_Witness ==
  /\ tabOp = "open_file"
  /\ Len(recent_files) = MaxRecent
  /\ recent_files[1] = MaxRecent + 1
  /\ ~Contains(recent_files, 1)

SaveOps == {"file_save", "file_save_as", "tab_close_request", "close_all_tabs"}
CloseOps == {"tab_close_request", "close_all_tabs"}

\* A step whose open failed changes no tab and no recent file; a step whose
\* only save call failed leaves the editor it was for as it was; an error
\* is reported for each, a cancelled Save As dialog being no error.
FailureStep ==
  /\ (tabOp' = "open_file" /\ reported') =>
        /\ tabs' = tabs
        /\ current' = current
        /\ recent_files' = recent_files
  /\ \A sv \in saves' :
        (saves' = {sv} /\ ~sv.result) =>
           /\ sv.id \in Ids(tabs')
           /\ EditorOf(tabs', sv.id) = EditorOf(tabs, sv.id)
           /\ recent_files' = recent_files
           /\ reported' = (sv.path # NoPath)

\* C14: a failed open adds no tab and changes no editor, nor the current
\* tab, nor recent_files; a failed save returns False and leaves the
\* editor's content, file_path and modified flag as they were; the error is
\* reported in both cases.
C14_FailuresChangeNothing == [][FailureStep]_vars
\* A save of a modified editor with a file path failed on the disk.
C14_Witness ==
  /\ tabOp = "file_save"
  /\ reported
  /\ \E sv \in saves :
       /\ ~sv.result
       /\ sv.path # NoPath
       /\ EditorOf(tabs, sv.id).modified
       /\ EditorOf(tabs, sv.id).file_path = sv.path

\* The editors that were on the tab bar before the step and still are.
Survivors == Ids(tabs) \ {r.id : r \in removed'}
SavedOk == {sv \in saves' : sv.result}
SaveStep ==
  (tabOp' \in SaveOps /\ SavedOk # {}) =>
     \A id \in Survivors :
        LET old == EditorOf(tabs, id)
            new == EditorOf(tabs', id)
        IN IF \E sv \in SavedOk : sv.id = id
           THEN /\ new.file_path = (CHOOSE sv \in SavedOk : sv.id = id).path
                /\ ~new.modified
           ELSE /\ new.file_path = old.file_path
                /\ new.modified = old.modified

\* C19: a step that saves editors leaves each saved editor with the path it
\* was written to and unmodified, and every other editor with the file_path
\* and the modified flag it had, whichever tab is current.
C19_SaveTouchesSavedEditorOnly == [][SaveStep]_vars

Choice(id) == {d.choice : d \in {x \in dialogs' : x.id = id}}
CloseStep ==
  tabOp' \in CloseOps =>
     /\ \A r \in removed' :
          /\ r.id \in Ids(tabs)
          /\ EditorOf(tabs, r.id).modified =>
               \/ Choice(r.id) = {"Discard"}
               \/ /\ Choice(r.id) = {"Save"}
                  /\ \E sv \in saves' : sv.id = r.id /\ sv.result
                  /\ ~r.modified
     /\ \A d \in dialogs' :
          d.choice = "Cancel" => d.id \notin {r.id : r \in removed'}
     /\ (tabOp' = "tab_close_request" /\ \E d \in dialogs' : d.choice = "Cancel") =>
          tabs' = tabs

\* C20: Close Tab and Close All take a modified editor off the tab bar only
\* when the user chose Discard for it, or chose Save and the save succeeded,
\* the editor being unmodified when it goes; an editor the user chose Cancel
\* for stays, and a cancelled Close Tab changes no tab.
C20_NoSilentLoss == [][CloseStep]_vars
\* Close All saved a modified editor and then took it off the tab bar.
C20_Witness ==
  /\ tabOp = "close_all_tabs"
  /\ \E d \in dialogs :
       /\ d.choice = "Save"
       /\ [id |-> d.id, modified |-> FALSE] \in removed
       /\ \E sv \in saves : sv.id = d.id /\ sv.result

\* C18: after Replace All the document is the old one with every
\* occurrence of the find text replaced and nothing else, an occurrence
\* being one that matches under the options: letter case ignored when Case
\* sensitive is unchecked, whole words only when Whole word is checked.
C18_ReplaceAllHonoursOptions ==
  replOp = "replace_all" =>
    doc = ReSub(before, params.find_text, params.replace_text,
                ~params.case_sensitive, params.whole_word)

\* The handler took every tab that was open off the tab bar.
RemovedIds == {r.id : r \in removed'}
LastTabGone == tabOp' \in CloseOps /\ RemovedIds = Ids(tabs)
LastTabStep ==
  LastTabGone =>
     /\ Len(tabs') = 1
     /\ tabs'[1] = NewEditor(tabs'[1].id)
     /\ current' = tabs'[1].id

\* C21: after startup and after every tab and file handler at least one
\* tab is open and one of the open tabs is current; a handler that removes
\* the last tab leaves exactly one tab, a new empty untitled one.
C21_AlwaysATab == [](Len(tabs) >= 1 /\ current \in Ids(tabs)) /\ [][LastTabStep]_vars
\* The only tab of a fresh window was closed and a new one stands in.
C21_Witness ==
  /\ tabOp = "tab_close_request"
  /\ steps = 1
  /\ removed # {}
  /\ tabs = <<NewEditor(tabs[1].id)>>

CloseSaveStep ==
  tabOp' = "tab_close_request" =>
     \A d \in dialogs' :
        d.choice = "Save" =>
           IF \E sv \in saves' : sv.id = d.id /\ sv.result
           THEN d.id \in RemovedIds
           ELSE d.id \notin RemovedIds /\ d.id \in Ids(tabs')

\* C22: a close request for a modified tab answered with Save removes the
\* tab when the save succeeded, and keeps it when the save failed or the
\* Save As dialog was cancelled.
C22_SaveThenClose == [][CloseSaveStep]_vars

\* C23: whenever the child process is neither starting nor running, the
\* Stop Script action is disabled and the console is read-only.
C23_IdleStopDisabled == procState = "NotRunning" => (~stopEnabled /\ readOnly)

ReadOnlyKeyStep ==
  (readOnly /\ lastOp' \in KeyOps) =>
     /\ buf' = buf
     /\ history' = history
     /\ history_index' = history_index
     /\ emitted' = <<>>

\* C24: a key event that reaches a read-only console changes neither the
\* buffer nor history nor history_index, and emits no command.
C24_ReadOnlyKeysInert == [][ReadOnlyKeyStep]_vars

\* C26: line_start is a position of the buffer: 0 <= line_start <= the end
\* of the buffer, in every reachable state.
C26_LineStartInBuffer == 0 <= line_start /\ line_start <= Len(buf)

\* The editors Close All stopped at: Cancel was chosen for them or their
\* save returned False (failed write, cancelled Save As dialog).
StoppedAt ==
  {d.id : d \in {x \in dialogs' : x.choice = "Cancel"}} \cup
  {sv.id : sv \in {x \in saves' : ~x.result}}
CloseAllStep ==
  tabOp' = "close_all_tabs" =>
     /\ passes' <= 2 * Len(tabs)
     /\ IF StoppedAt = {}
        THEN /\ RemovedIds = Ids(tabs)
             /\ Len(tabs') = 1
             /\ tabs'[1] = NewEditor(tabs'[1].id)
        ELSE \E k \in 1..Len(tabs) :
                /\ StoppedAt = {tabs[k].id}
                /\ RemovedIds = {tabs[j].id : j \in 1..(k - 1)}
                /\ Len(tabs') = Len(tabs) - k + 1
                /\ \A j \in 1..Len(tabs') :
                      /\ tabs'[j].id = tabs[k + j - 1].id
                      /\ tabs'[j].content = tabs[k + j - 1].content

\* C27: Close All ends after at most two passes of its loop per tab (one
\* to save, one to remove).  When no dialog is cancelled and no save fails,
\* every tab that was open is removed and one new empty untitled tab
\* remains; otherwise the tabs before the one it stopped at are removed,
\* that tab and the tabs after it stay in order with their content, and no
\* tab is created.
C27_CloseAllTerminates == [][CloseAllStep]_vars
\* Close All removed the first tab and was cancelled at the second.
C27_Witness ==
  /\ tabOp = "close_all_tabs"
  /\ removed # {}
  /\ passes = 2
  /\ \E d \in dialogs : d.choice = "Cancel" /\ d.id \in Ids(tabs)

EndsWith(b, text) == Len(text) <= Len(b) /\ SubSeq(b, Len(b) - Len(text) + 1, Len(b)) = text

\* A stop request for a running process kills it and appends the message
\* once; any other stop request changes neither the console, nor the
\* process, nor the Stop action.
StopStep ==
  lastOp' = "StopScript" =>
     IF procState = "Running"
     THEN /\ killed'
          /\ buf' = buf \o TerminatedMsg
          /\ procState' = procState
     ELSE UNCHANGED <<cons, proc>>
\* The exit-code event has been handled.
FinishedShown ==
  /\ lastOp = "ScriptFinished"
  /\ procState = "NotRunning"
  /\ ~stopEnabled
  /\ readOnly
  /\ \E code \in ExitCodes : EndsWith(buf, FinishedMsg(code))

\* C25: Stop Script on a running process kills it and appends
\* "[Script terminated]" once, and the exit-code event follows eventually,
\* leaving the Stop action disabled, the console read-only and the
\* "[Script finished ...]" line at the end of the buffer; Stop Script with
\* no running process changes nothing.
C25_StopKills ==
  /\ [][StopStep]_vars
  /\ ((lastOp = "StopScript" /\ killed) ~> FinishedShown)
\* A stopped process exited right after the stop request.
C25_Witness ==
  /\ FinishedShown
  /\ \E code \in ExitCodes : EndsWith(buf, TerminatedMsg \o FinishedMsg(code))

====
